---- MODULE Spec2Model ----
(***************************************************************************)
(* SayMySubtitles (app.py): the timed-speech pipeline.                     *)
(*                                                                         *)
(*   build_timed_track_from_srt : per cue  say -> aiff_to_wav ->           *)
(*        verify_audio -> time_stretch_to_duration -> verify_audio ->      *)
(*        overlay                                                          *)
(*   App._do_replace            : build, export, verify_audio,             *)
(*        replace_video_audio, then Done / Error and _restoreButton        *)
(*   App (main thread)          : handleDropped, onReplace_, _showAlert_,  *)
(*        _restoreButton                                                   *)
(*                                                                         *)
(* Spec is one run of the worker thread, SpecSay, SpecFit and SpecMux are  *)
(* mac_say_to_aiff, time_stretch_to_duration and replace_video_audio on    *)
(* their own, SpecStatus is one run in each status reporting mode, and     *)
(* SpecApp is the App with its user, run after run.                        *)
(*                                                                         *)
(* Every external process (say, ffmpeg) is run through run(), which raises *)
(* RuntimeError on a non-zero exit; the exit status and the diagnostic     *)
(* text of each invocation are the environment's choice.                   *)
(*                                                                         *)
(* Units: a timedelta is an integer number of microseconds, an audio       *)
(* duration an integer number of milliseconds (pydub's len()), a speed     *)
(* factor a fraction <<numerator, denominator>>.  A string that the code   *)
(* searches (the cue text, a command line, an error message) is a sequence *)
(* of tokens; a token is a word or one whitespace character.               *)
(***************************************************************************)
EXTENDS Integers, Sequences, FiniteSets, TLC

(* ------------------------------ bounds --------------------------------- *)

\* number of cues in the subtitle file of the full pipeline
MaxCues == 2
\* largest target duration (ms) handed to the fitter on its own
MaxTarget == 12
\* number of paths dropped on the window at once
MaxDrop == 1
\* largest measured clip duration (ms) handed to the fitter on its own
MaxClip == 9
\* longest raw cue text (tokens) handed to the synthesizer on its own
MaxTextLen == 3

(* --------------------------- program constants ------------------------- *)

RATE_WPM == 200
\* trailing silence added after the last cue's end (ms)
TrailingPadMs == 500
\* minimum audibility: floor of the target passed to the fitter (ms)
MinTargetMs == 120
\* AudioSegment.silent(..., frame_rate=48000)
FrameRate == 48000

(* ------------------------------ strings -------------------------------- *)

Whitespace == {" ", "\n"}
Words == {"hi", "voice", "Invalid"}
Tokens == Whitespace \cup Words

\* the substrings mac_say_to_aiff looks for in the failure text
VoiceMarkers == {"Voice", "voice", "Invalid"}

\* `marker in msg`: some token of msg is the marker (no token of the model
\* contains a marker as a proper substring)
Contains(msg, marker) == \E k \in 1..Len(msg) : msg[k] = marker

RECURSIVE CollapseWs(_)
\* re.sub(r"\s+", " ", text): every run of whitespace becomes one space
CollapseWs(s) ==
    IF s = <<>> THEN <<>>
    ELSE IF Head(s) \in Whitespace
         THEN IF Len(s) > 1 /\ s[2] \in Whitespace
              THEN CollapseWs(Tail(s))
              ELSE <<" ">> \o CollapseWs(Tail(s))
         ELSE <<Head(s)>> \o CollapseWs(Tail(s))

\* str.strip() of a string whose whitespace runs are already collapsed
Strip(s) ==
    LET a == IF s # <<>> /\ Head(s) \in Whitespace THEN Tail(s) ELSE s
    IN  IF a # <<>> /\ a[Len(a)] \in Whitespace
        THEN SubSeq(a, 1, Len(a) - 1) ELSE a

compact(text) == Strip(CollapseWs(text))

(* ------------------------------- time ---------------------------------- *)

\* timedeltas t (in ms, below 4001) for which the double product
\* t.total_seconds() * 1000 falls just below the integer t
FloatShortMs ==
    {1001, 1003, 1005, 1007, 1009, 1011, 1013, 1015, 1017, 1019, 1021, 1023,
     2002, 2006, 2010, 2014, 2018, 2022, 2026, 2030, 2034, 2038, 2042, 2046}

\* int(td.total_seconds() * 1000), td in microseconds
ms(td) ==
    LET whole == td \div 1000
    IN  IF whole \in FloatShortMs /\ td % 1000 = 0 THEN whole - 1 ELSE whole

\* the "-t" argument f"{x:.6f}" of a duration of t_ms milliseconds, as the
\* integer number of microseconds the text denotes
SecondsArg(t_ms) == t_ms * 1000

\* the silence length without the one-millisecond floor
SilenceFloorArg_NoFloor(t_ms) == SecondsArg(t_ms)

\* max(target_ms/1000.0, 0.001) formatted with .6f, in microseconds
SilenceFloorArg(t_ms) == IF SecondsArg(t_ms) > 1000 THEN SecondsArg(t_ms) ELSE 1000

\* duration (ms) of a file ffmpeg writes with "-t <arg>" from an endless source
DurationOfArg(arg_us) == arg_us \div 1000

(* ------------------------------ run() ---------------------------------- *)

\* diagnostic text a failing `say` may print
SayStderr == {<<"Voice", "`X'", "not", "found.">>,
              <<"Opening", "output", "file", "failed">>}
\* diagnostic text a failing ffmpeg may print
FfmpegStderr == {<<"Conversion", "failed!">>}

\* what the environment decides about one subprocess: exit status and stderr
RunOutcomes(stderrs) ==
    {[rc |-> 0, stderr |-> <<>>]} \cup {[rc |-> 1, stderr |-> e] : e \in stderrs}

\* the RuntimeError text run() builds on a non-zero exit: the command line,
\* then the captured stdout and stderr
Details(cmd, out, errtxt) ==
    <<"Command", "failed:", "$">> \o cmd \o <<"STDOUT:">> \o out
        \o <<"STDERR:">> \o errtxt

NoErr == [type |-> "none", msg |-> <<>>]
RuntimeError(msg) == [type |-> "RuntimeError", msg |-> msg]
ValueError(msg) == [type |-> "ValueError", msg |-> msg]
OtherError(msg) == [type |-> "Exception", msg |-> msg]

(* ------------------------------ files ---------------------------------- *)

NoFile == [dur |-> -1, silent |-> TRUE]
Clip(d, s) == [dur |-> d, silent |-> s]

\* f"{i:04d}" for the cue numbers of the model
Pad4(n) == IF n < 10 THEN "000" \o ToString(n) ELSE "00" \o ToString(n)
AiffPath(n) == "td/" \o Pad4(n) \o ".aiff"
WavPath(n) == "td/" \o Pad4(n) \o ".wav"
FitPath(n) == "td/" \o Pad4(n) \o "_fit.wav"

(* ------------------------------ state ---------------------------------- *)

VARIABLES
    subs,          \* the parsed cues: [start, end, content], timedeltas in us
    voice,         \* App.voice, "" for None
    pc,            \* where the worker thread is ("idle": none started yet)
    i,             \* enumerate(subs, start=1) index of the current cue
    timeline,      \* [duration, overlays]: the AudioSegment being composed
    wav,           \* the normalized clip of the current cue
    target,        \* target_ms of the current time_stretch_to_duration call
    cur_ms,        \* measured duration of the fitter's input, -1 before
    steps,         \* the atempo chain of the last stage()
    st,            \* the fitter's intermediate file st.wav
    fit,           \* the fitted clip of the current cue
    narration,     \* narration.wav
    encoders,      \* the list pick_mux_encoders returned
    encIdx,        \* 1-based position of replace_video_audio's for loop
    last_err,      \* replace_video_audio's last_err
    out_video,     \* [written, audio]: the output mp4 as this run's ffmpeg left it
    err,           \* the exception that is propagating / was caught
    calls,         \* every subprocess and pydub operation so far, in order
    status,        \* last text given to setStatus
    alerts,        \* payloads queued for _showAlert:
    restoreQueued, \* _restoreButton has been queued on the main thread
    video_path,    \* App.video_path, NoPath for None
    srt_path,      \* App.srt_path, NoPath for None
    srtfiles,      \* the cues pysrt reads from each .srt on disk
    clicked,       \* [video, srt]: the selection when Replace Audio was clicked
    used,          \* [srt, video, out]: the paths the worker thread has read
    btnEnabled,    \* btnReplace.isEnabled()
    workers,       \* number of _do_replace threads alive
    tmpfiles,      \* the files present in the temporary directories
    status_cb      \* how a status report behaves, one of StatusModes

vars == <<subs, voice, pc, i, timeline, wav, target, cur_ms, steps, st, fit,
          narration, encoders, encIdx, last_err, out_video, err, calls,
          status, alerts, restoreQueued, video_path, srt_path, srtfiles,
          clicked, used, btnEnabled, workers, tmpfiles, status_cb>>

buildVars == <<timeline, wav>>
fitVars == <<target, cur_ms, steps, st, fit>>
muxVars == <<encoders, encIdx, last_err, out_video>>
uiVars == <<status, alerts, restoreQueued>>
appVars == <<video_path, srt_path, srtfiles, clicked, btnEnabled, status_cb>>
inputVars == <<subs, voice, appVars>>

Unmeasured == 0 - 1

\* one entry of calls: the operation, the cue it serves (0: none), its
\* distinguishing argument, whether it succeeded and the stderr it printed
Call(op, cue, arg, ok, diag) ==
    [op |-> op, cue |-> cue, arg |-> arg, ok |-> ok, diag |-> diag]

Status(text, a, b, c) == [text |-> text, i |-> a, n |-> b, pct |-> c]
IdleStatus == Status("Idle", 0, 0, 0)

EmptyTimeline == [duration |-> 0, overlays |-> <<>>]
NoOutput == [written |-> FALSE, audio |-> FALSE]

\* a file path as pathlib splits it: Path(p).stem and Path(p).suffix
FilePath(stem, suffix) == [stem |-> stem, suffix |-> suffix]
NoPath == FilePath("", "")
PathStr(p) == p.stem \o p.suffix

\* str.lower() on the suffixes of the model
Lower(s) == IF s = ".MP4" THEN ".mp4" ELSE IF s = ".SRT" THEN ".srt" ELSE s

\* line 531: Path(video).with_name(Path(video).stem + "_tts_audio.mp4")
OutPath(video) == FilePath(video.stem \o "_tts_audio", ".mp4")

NoPathsRead == [srt |-> NoPath, video |-> NoPath, out |-> NoPath]

\* a file inside one of the TemporaryDirectory blocks: td of
\* build_timed_track_from_srt, td2 of time_stretch_to_duration, td3 of
\* _do_replace
TmpFile(dir, path) == [dir |-> dir, path |-> path]

\* line 25
DEBUG_KEEP_FILES == FALSE

\* lines 517-522: narration.wav goes to the Desktop debug folder or into td3
NarrDir == IF DEBUG_KEEP_FILES THEN "SayMySubtitles-Debug" ELSE "td3"
NarrPath == NarrDir \o "/narration.wav"

\* leaving the with block of a TemporaryDirectory removes what it holds
Cleanup(dir) == {f \in tmpfiles : f.dir # dir}

\* a status report: the App's setStatus working ("ok"), its label update
\* raising inside the try of lines 370-376 ("label_fails"), or
\* build_timed_track_from_srt called without a callback ("none")
StatusModes == {"none", "ok", "label_fails"}

\* setStatus(txt), lines 368-376, and `if status_cb: status_cb(txt)`: what
\* the label shows afterwards.  The whole body of setStatus is inside its
\* try, an exception of the label update is swallowed by `except Exception:
\* pass` and the label keeps its text; setStatus never raises.
StatusOutcomes(label, txt, via_cb) ==
    IF via_cb /\ status_cb = "none" THEN {label}
    ELSE IF status_cb = "label_fails" THEN {txt, label}
    ELSE {txt}

(* ------------------------------ inputs --------------------------------- *)

Voices == {"Samantha", "Alex"}

Cue(s, e, c) == [start |-> s, end |-> e, content |-> c]

\* the cues a subtitle file of the model is made of (timedeltas in
\* microseconds): a long cue from zero, an empty-text cue, a zero-length cue
\* whose text mentions a voice, and a late zero-length cue
Cues == {Cue(0, 1001000, <<"hi">>),
         Cue(1001000, 1001000, <<" ", "\n">>),
         Cue(125000, 125000, <<"voice", " ", " ", "hi">>),
         Cue(1001000, 1001000, <<"hi">>)}

RECURSIVE SeqsUpTo(_, _)
\* all sequences over S of length at most n
SeqsUpTo(S, n) ==
    IF n = 0 THEN {<<>>}
    ELSE LET shorter == SeqsUpTo(S, n - 1)
         IN  shorter \cup {Append(q, x) : q \in {r \in shorter : Len(r) = n - 1}, x \in S}

\* no file written, no subprocess run, nothing reported yet
Fresh ==
    /\ wav = NoFile
    /\ target = 0
    /\ cur_ms = Unmeasured
    /\ steps = <<>>
    /\ st = NoFile
    /\ fit = NoFile
    /\ narration = NoFile
    /\ encoders = <<>>
    /\ encIdx = 0
    /\ last_err = NoErr
    /\ out_video = NoOutput
    /\ err = NoErr
    /\ calls = <<>>
    /\ alerts = <<>>
    /\ restoreQueued = FALSE

VideoA == FilePath("a", ".mp4")
SrtA == FilePath("a", ".srt")

\* onReplace_ has just started one worker thread on the video v and the
\* subtitle file s: the button is disabled, the thread has read no path yet
Started(v, s) ==
    /\ video_path = v
    /\ srt_path = s
    /\ clicked = [video |-> v, srt |-> s]
    /\ btnEnabled = FALSE
    /\ workers = 1

\* the worker thread has just been started on a dropped .srt and .mp4, with
\* the voice popup at its initial selection
Init ==
    /\ srtfiles \in [{PathStr(SrtA)} -> SeqsUpTo(Cues, MaxCues)]
    /\ subs = <<>>
    /\ Started(VideoA, SrtA)
    /\ used = NoPathsRead
    /\ tmpfiles = {}
    /\ status_cb = "ok"
    /\ voice = "Samantha"
    /\ pc = "start"
    /\ i = 0
    /\ timeline = EmptyTimeline
    /\ status = IdleStatus
    /\ Fresh

\* raise e: the exception is in flight towards _do_replace's except clause
Raise(e) ==
    /\ pc' = "raised"
    /\ err' = e

(* ------------------- build_timed_track_from_srt ------------------------ *)

\* the length taken from the greatest end instead of the last cue's
TotalMs_GreatestEnd(q) ==
    ms(CHOOSE e \in {q[k].end : k \in 1..Len(q)} :
           \A k \in 1..Len(q) : q[k].end <= e) + TrailingPadMs

\* ms(subs[-1].end) + 500
TotalMs(q) == ms(q[Len(q)].end) + TrailingPadMs

\* AudioSegment.silent(duration, frame_rate=48000): a whole number of frames,
\* whose length pydub reports rounded to the millisecond
Silent(duration_ms) ==
    LET frames == (FrameRate * duration_ms) \div 1000
    IN  [duration |-> (1000 * frames + FrameRate \div 2) \div FrameRate,
         overlays |-> <<>>]

\* int(round(i * 100.0 / len(subs))); no quotient of the model ends in .5,
\* where Python rounds to the even neighbour
Pct(n, total) == (2 * n * 100 + total) \div (2 * total)

\* the start of the run with a setStatus that has no try/except: a failing
\* label update ends the run instead of being swallowed
Parse_StatusUnguarded ==
    /\ pc = "start"
    /\ \E s1 \in StatusOutcomes(status, Status("Parsing subtitles", 0, 0, 0), FALSE),
          readable \in BOOLEAN :
         LET cues == srtfiles[PathStr(srt_path)]
         IN  IF s1 = status
             THEN /\ Raise(OtherError(<<"setStringValue:", "failed">>))
                  /\ status' = s1
                  /\ UNCHANGED <<subs, i, timeline>>
             ELSE IF ~readable
             THEN /\ Raise(OtherError(<<"No", "such", "file">>))
                  /\ status' = s1
                  /\ UNCHANGED <<subs, i, timeline>>
             ELSE IF cues = <<>>
             THEN /\ Raise(ValueError(<<"No", "subtitles", "found", "in", "SRT.">>))
                  /\ status' = s1
                  /\ UNCHANGED <<subs, i, timeline>>
             ELSE /\ subs' = cues
                  /\ status' \in StatusOutcomes(s1, Status("Parsed", 0, Len(cues), 0), TRUE)
                  /\ timeline' = Silent(TotalMs(cues))
                  /\ i' = 1
                  /\ pc' = "cue"
                  /\ UNCHANGED err
    /\ used' = [used EXCEPT !.srt = srt_path]
    /\ UNCHANGED <<voice, appVars, workers, tmpfiles, wav, fitVars, narration,
                   muxVars, calls, alerts, restoreQueued>>

\* lines 502-252: _do_replace starts, the SRT is read and parsed and the
\* silent base track is allocated
Parse ==
    /\ pc = "start"
    /\ \E s1 \in StatusOutcomes(status, Status("Parsing subtitles", 0, 0, 0), FALSE),
          readable \in BOOLEAN :
         LET cues == srtfiles[PathStr(srt_path)]
         IN  IF ~readable
             THEN /\ Raise(OtherError(<<"No", "such", "file">>))
                  /\ status' = s1
                  /\ UNCHANGED <<subs, i, timeline>>
             ELSE IF cues = <<>>
             THEN /\ Raise(ValueError(<<"No", "subtitles", "found", "in", "SRT.">>))
                  /\ status' = s1
                  /\ UNCHANGED <<subs, i, timeline>>
             ELSE /\ subs' = cues
                  /\ status' \in StatusOutcomes(s1, Status("Parsed", 0, Len(cues), 0), TRUE)
                  /\ timeline' = Silent(TotalMs(cues))
                  /\ i' = 1
                  /\ pc' = "cue"
                  /\ UNCHANGED err
    /\ used' = [used EXCEPT !.srt = srt_path]
    /\ UNCHANGED <<voice, appVars, workers, tmpfiles, wav, fitVars, narration,
                   muxVars, calls, alerts, restoreQueued>>

\* the loop head without the `if not text: continue` of lines 257-258
NextCue_NoSkip ==
    /\ pc = "cue"
    /\ IF i > Len(subs)
       THEN /\ pc' = "export"
            /\ tmpfiles' = Cleanup("td")
            /\ UNCHANGED <<i, status>>
       ELSE /\ status' \in StatusOutcomes(status,
                    Status("Generating speech", i, Len(subs), Pct(i, Len(subs))), TRUE)
            /\ pc' = "say"
            /\ UNCHANGED <<i, tmpfiles>>
    /\ UNCHANGED <<inputVars, workers, used, buildVars, fitVars, narration,
                   muxVars, err, calls, alerts, restoreQueued>>

\* lines 254-262: the head of the cue loop; an empty text is skipped, the
\* end of the list leaves the with block and returns the timeline to
\* _do_replace
NextCue ==
    /\ pc = "cue"
    /\ IF i > Len(subs)
       THEN /\ pc' = "export"
            /\ tmpfiles' = Cleanup("td")
            /\ UNCHANGED <<i, status>>
       ELSE IF compact(subs[i].content) = <<>>
       THEN /\ i' = i + 1
            /\ UNCHANGED <<pc, status, tmpfiles>>
       ELSE /\ status' \in StatusOutcomes(status,
                    Status("Generating speech", i, Len(subs), Pct(i, Len(subs))), TRUE)
            /\ pc' = "say"
            /\ UNCHANGED <<i, tmpfiles>>
    /\ UNCHANGED <<inputVars, workers, used, buildVars, fitVars, narration,
                   muxVars, err, calls, alerts, restoreQueued>>

(* --------------------------- mac_say_to_aiff --------------------------- *)

\* build_cmd(use_voice): -v is passed only when a voice is set
build_cmd(use_voice, text, out_path) ==
    <<"say", "-o", out_path>>
        \o (IF use_voice /\ voice # "" THEN <<"-v", voice>> ELSE <<>>)
        \o <<"-r", ToString(RATE_WPM)>>
        \o text

\* the test of line 187 on str(e)
LooksLikeVoiceError(msg) == \E m \in VoiceMarkers : Contains(msg, m)

\* lines 183-191, first invocation: `say` with the requested voice
Say ==
    /\ pc = "say"
    /\ \E o \in RunOutcomes(SayStderr) :
         LET cmd == build_cmd(TRUE, compact(subs[i].content), AiffPath(i))
             msg == Details(cmd, <<>>, o.stderr)
         IN  /\ calls' = Append(calls,
                    Call("say", i, IF voice # "" THEN 1 ELSE 0, o.rc = 0, o.stderr))
             /\ tmpfiles' = IF o.rc = 0
                            THEN tmpfiles \cup {TmpFile("td", AiffPath(i))}
                            ELSE tmpfiles
             /\ IF o.rc = 0
                THEN pc' = "aiff_to_wav" /\ UNCHANGED err
                ELSE IF LooksLikeVoiceError(msg)
                THEN pc' = "say_retry" /\ UNCHANGED err
                ELSE Raise(RuntimeError(msg))
    /\ UNCHANGED <<inputVars, workers, used, i, buildVars, fitVars, narration, muxVars, uiVars>>

\* line 189: the retry without -v; its failure propagates
SayRetry ==
    /\ pc = "say_retry"
    /\ \E o \in RunOutcomes(SayStderr) :
         LET cmd == build_cmd(FALSE, compact(subs[i].content), AiffPath(i))
         IN  /\ calls' = Append(calls, Call("say", i, 0, o.rc = 0, o.stderr))
             /\ tmpfiles' = IF o.rc = 0
                            THEN tmpfiles \cup {TmpFile("td", AiffPath(i))}
                            ELSE tmpfiles
             /\ IF o.rc = 0
                THEN pc' = "aiff_to_wav" /\ UNCHANGED err
                ELSE Raise(RuntimeError(Details(cmd, <<>>, o.stderr)))
    /\ UNCHANGED <<inputVars, workers, used, i, buildVars, fitVars, narration, muxVars, uiVars>>

(* ------------------------ aiff_to_wav, verify_audio -------------------- *)

\* durations (ms) the synthesized, normalized clip of a cue may have
ClipDurations == {0, 1000}

Min(a, b) == IF a < b THEN a ELSE b
Max(a, b) == IF a > b THEN a ELSE b

aiff_to_wav_cmd(aiff_path, wav_path) ==
    <<"ffmpeg", "-y", "-i", aiff_path, "-ar", "48000", "-ac", "2",
      "-acodec", "pcm_s16le", wav_path>>

verify_audio_cmd(wav_path) ==
    <<"ffmpeg", "-v", "error", "-i", wav_path, "-f", "null", "-">>

\* line 269: the AIFF is resampled into the cue's wav
AiffToWav ==
    /\ pc = "aiff_to_wav"
    /\ \E o \in RunOutcomes(FfmpegStderr) :
         /\ calls' = Append(calls, Call("aiff_to_wav", i, 0, o.rc = 0, o.stderr))
         /\ IF o.rc = 0
            THEN /\ \E d \in ClipDurations : wav' = Clip(d, FALSE)
                 /\ tmpfiles' = tmpfiles \cup {TmpFile("td", WavPath(i))}
                 /\ pc' = "verify_wav"
                 /\ UNCHANGED err
            ELSE /\ Raise(RuntimeError(
                        Details(aiff_to_wav_cmd(AiffPath(i), WavPath(i)), <<>>, o.stderr)))
                 /\ UNCHANGED <<wav, tmpfiles>>
    /\ UNCHANGED <<inputVars, workers, used, i, timeline, fitVars, narration, muxVars, uiVars>>

\* the span of the cue handed to the fitter as it is
FitTarget_NoFloor(cue) == ms(cue.end - cue.start)

\* lines 272-273: target = ms(cue.end - cue.start), then max(target, 120)
FitTarget(cue) == Max(ms(cue.end - cue.start), MinTargetMs)

\* verify_audio(wav) whose result is ignored: the fit starts either way
VerifyWav_Unchecked ==
    /\ pc = "verify_wav"
    /\ \E o \in RunOutcomes(FfmpegStderr) :
         /\ calls' = Append(calls, Call("verify_audio", i, 0, o.rc = 0, o.stderr))
         /\ target' = FitTarget(subs[i])
         /\ cur_ms' = Unmeasured
         /\ steps' = <<>>
         /\ fit' = NoFile
         /\ pc' = "fit"
         /\ UNCHANGED err
    /\ UNCHANGED <<inputVars, workers, used, tmpfiles, i, buildVars, st, narration,
                   muxVars, uiVars>>

\* lines 270-273: verify_audio(wav), then the target of the fit is the cue's
\* span, raised to the audibility floor
VerifyWav ==
    /\ pc = "verify_wav"
    /\ \E o \in RunOutcomes(FfmpegStderr) :
         /\ calls' = Append(calls, Call("verify_audio", i, 0, o.rc = 0, o.stderr))
         /\ IF o.rc = 0
            THEN /\ target' = FitTarget(subs[i])
                 /\ cur_ms' = Unmeasured
                 /\ steps' = <<>>
                 /\ fit' = NoFile
                 /\ pc' = "fit"
                 /\ UNCHANGED err
            ELSE /\ Raise(RuntimeError(
                        Details(verify_audio_cmd(WavPath(i)), <<>>, o.stderr)))
                 /\ UNCHANGED <<target, cur_ms, steps, fit>>
    /\ UNCHANGED <<inputVars, workers, used, tmpfiles, i, buildVars, st, narration, muxVars, uiVars>>

(* ---------------------- time_stretch_to_duration ----------------------- *)

silence_cmd(arg_us, out_wav) ==
    <<"ffmpeg", "-y", "-f", "lavfi", "-i", "anullsrc=r=48000:cl=stereo",
      "-t", ToString(arg_us), out_wav>>

\* factor = (target_ms / 1000.0) / (cur_ms / 1000.0), as a fraction
Factor(t_ms, c_ms) == <<t_ms, c_ms>>

GreaterThanTwo(r) == r[1] > 2 * r[2]
LessThanHalf(r) == 2 * r[1] < r[2]

RECURSIVE TempoSteps_NoSlowBranch(_)
\* the split without the branch for factors below 0.5
TempoSteps_NoSlowBranch(r) ==
    IF GreaterThanTwo(r)
    THEN <<<<2, 1>>>> \o TempoSteps_NoSlowBranch(<<r[1], 2 * r[2]>>)
    ELSE <<r>>

RECURSIVE TempoSteps(_)
\* lines 223-230: split f into atempo steps
TempoSteps(r) ==
    IF GreaterThanTwo(r) THEN <<<<2, 1>>>> \o TempoSteps(<<r[1], 2 * r[2]>>)
    ELSE IF LessThanHalf(r) THEN <<<<1, 2>>>> \o TempoSteps(<<2 * r[1], r[2]>>)
    ELSE <<r>>

\* f"{s:.6f}": the step as ffmpeg receives it, in millionths
AtempoArg(s) == (2 * 1000000 * s[1] + s[2]) \div (2 * s[2])

RECURSIVE AtempoDuration(_, _)
\* duration (ms) of d_ms of audio after the atempo chain: a step of tempo s
\* plays the audio s times faster, so it lasts 1/s as long
AtempoDuration(d_ms, chain) ==
    IF chain = <<>> THEN d_ms
    ELSE AtempoDuration((d_ms * Head(chain)[2]) \div Head(chain)[1], Tail(chain))

\* ffmpeg -i in -t arg out: the output stops at arg; a shorter input is
\* copied whole, nothing is appended to it
TrimDuration(d_ms, arg_us) == Min(d_ms, DurationOfArg(arg_us))

\* lines 204-217: the two silence branches.  Without a positive target the
\* input is not even measured; a clip pydub cannot read counts as 0 ms.
FitSilence ==
    /\ pc = "fit"
    /\ \E readable \in (IF target <= 0 THEN {TRUE} ELSE BOOLEAN),
          o \in RunOutcomes(FfmpegStderr) :
         LET measured == IF target <= 0 THEN Unmeasured
                         ELSE IF readable THEN wav.dur ELSE 0
             arg == IF target <= 0 THEN SilenceFloorArg(target)
                    ELSE SecondsArg(target)
         IN  /\ target <= 0 \/ measured <= 0
             /\ cur_ms' = measured
             /\ calls' = Append(calls, Call("silence", i, arg, o.rc = 0, o.stderr))
             /\ IF o.rc = 0
                THEN /\ fit' = Clip(DurationOfArg(arg), TRUE)
                     /\ tmpfiles' = tmpfiles \cup {TmpFile("td", FitPath(i))}
                     /\ pc' = "verify_fit"
                     /\ UNCHANGED err
                ELSE /\ Raise(RuntimeError(
                            Details(silence_cmd(arg, FitPath(i)), <<>>, o.stderr)))
                     /\ UNCHANGED <<fit, tmpfiles>>
    /\ UNCHANGED <<inputVars, workers, used, i, buildVars, target, steps, st, narration,
                   muxVars, uiVars>>

\* lines 209-236: the clip is measured, the factor split into atempo steps
\* and the chain applied into the temporary st.wav
FitStage ==
    /\ pc = "fit"
    /\ target > 0
    /\ wav.dur > 0
    /\ \E o \in RunOutcomes(FfmpegStderr) :
         LET chain == TempoSteps(Factor(target, wav.dur))
         IN  /\ cur_ms' = wav.dur
             /\ steps' = chain
             /\ calls' = Append(calls, Call("atempo", i, Len(chain), o.rc = 0, o.stderr))
             /\ IF o.rc = 0
                THEN /\ st' = Clip(AtempoDuration(wav.dur, chain), wav.silent)
                     /\ tmpfiles' = tmpfiles \cup {TmpFile("td2", "td2/st.wav")}
                     /\ pc' = "fit_trim"
                     /\ UNCHANGED err
                ELSE /\ Raise(RuntimeError(
                            Details(<<"ffmpeg", "-y", "-i", WavPath(i), "-af",
                                      "atempo", "td2/st.wav">>, <<>>, o.stderr)))
                     /\ UNCHANGED <<st, tmpfiles>>
    /\ UNCHANGED <<inputVars, workers, used, i, buildVars, target, fit, narration, muxVars, uiVars>>

\* line 238: "hard trim/pad to exact target"; leaving the with block removes
\* st.wav on either exit
FitTrim ==
    /\ pc = "fit_trim"
    /\ \E o \in RunOutcomes(FfmpegStderr) :
         /\ calls' = Append(calls, Call("trim", i, SecondsArg(target), o.rc = 0, o.stderr))
         /\ st' = NoFile
         /\ tmpfiles' = Cleanup("td2") \cup
                (IF o.rc = 0 THEN {TmpFile("td", FitPath(i))} ELSE {})
         /\ IF o.rc = 0
            THEN /\ fit' = Clip(TrimDuration(st.dur, SecondsArg(target)), st.silent)
                 /\ pc' = "verify_fit"
                 /\ UNCHANGED err
            ELSE /\ Raise(RuntimeError(
                        Details(<<"ffmpeg", "-y", "-i", "td2/st.wav", "-t",
                                  ToString(SecondsArg(target)), FitPath(i)>>,
                                <<>>, o.stderr)))
                 /\ UNCHANGED fit
    /\ UNCHANGED <<inputVars, workers, used, i, buildVars, target, cur_ms, steps, narration,
                   muxVars, uiVars>>

\* verify_audio(fit) whose failure only drops the cue
VerifyFit_SkipCue ==
    /\ pc = "verify_fit"
    /\ \E o \in RunOutcomes(FfmpegStderr) :
         /\ calls' = Append(calls, Call("verify_audio", i, 1, o.rc = 0, o.stderr))
         /\ IF o.rc = 0
            THEN pc' = "overlay" /\ UNCHANGED i
            ELSE pc' = "cue" /\ i' = i + 1
    /\ UNCHANGED <<inputVars, workers, used, tmpfiles, buildVars, fitVars, narration, muxVars, err, uiVars>>

\* line 275: verify_audio(fit)
VerifyFit ==
    /\ pc = "verify_fit"
    /\ \E o \in RunOutcomes(FfmpegStderr) :
         /\ calls' = Append(calls, Call("verify_audio", i, 1, o.rc = 0, o.stderr))
         /\ IF o.rc = 0
            THEN pc' = "overlay" /\ UNCHANGED err
            ELSE Raise(RuntimeError(
                     Details(verify_audio_cmd(FitPath(i)), <<>>, o.stderr)))
    /\ UNCHANGED <<inputVars, workers, used, tmpfiles, i, buildVars, fitVars, narration, muxVars, uiVars>>

(* ------------------------------ overlay -------------------------------- *)

\* AudioSegment.overlay(seg, position): the base up to position, then the
\* base mixed with as much of seg as still fits, then the rest of the base
Overlay(tl, seg_ms, position) ==
    LET head == Min(position, tl.duration)
        remaining == tl.duration - head
        mixed == Min(seg_ms, remaining)
    IN  [duration |-> head + mixed + (remaining - mixed),
         overlays |-> Append(tl.overlays,
                             [position |-> position, len |-> seg_ms, mixed |-> mixed])]

\* the loop going on to the next cue with the overlay of this one left for
\* later
OverlayCue_Deferred ==
    /\ pc = "overlay"
    /\ i' = i + 1
    /\ pc' = "cue"
    /\ UNCHANGED <<timeline, calls, err>>
    /\ UNCHANGED <<inputVars, workers, used, tmpfiles, wav, fitVars, narration,
                   muxVars, uiVars>>

\* lines 277-279: the fitted clip is read back and overlaid at the cue's start
OverlayCue ==
    /\ pc = "overlay"
    /\ \E readable \in BOOLEAN :
         IF readable
         THEN /\ timeline' = Overlay(timeline, fit.dur, ms(subs[i].start))
              /\ calls' = Append(calls, Call("overlay", i, ms(subs[i].start), TRUE, <<>>))
              /\ i' = i + 1
              /\ pc' = "cue"
              /\ UNCHANGED err
         ELSE /\ Raise(OtherError(<<"CouldntDecodeError">>))
              /\ UNCHANGED <<timeline, calls, i>>
    /\ UNCHANGED <<inputVars, workers, used, tmpfiles, wav, fitVars, narration, muxVars, uiVars>>

(* ----------------------------- _do_replace ----------------------------- *)

\* lines 516-526: the returned timeline is exported as narration.wav
Export ==
    /\ pc = "export"
    /\ status' \in StatusOutcomes(status, Status("Exporting narration", 0, 0, 0), FALSE)
    /\ \E ok \in BOOLEAN :
         /\ calls' = Append(calls, Call("export", 0, timeline.duration, ok, <<>>))
         /\ IF ok
            THEN /\ narration' = Clip(timeline.duration, timeline.overlays = <<>>)
                 /\ tmpfiles' = tmpfiles \cup {TmpFile(NarrDir, NarrPath)}
                 /\ pc' = "verify_narr"
                 /\ UNCHANGED err
            ELSE /\ Raise(OtherError(<<"export", "failed">>))
                 /\ UNCHANGED <<narration, tmpfiles>>
    /\ UNCHANGED <<inputVars, workers, used, i, buildVars, fitVars, muxVars,
                   alerts, restoreQueued>>

\* lines 527-531: verify_audio(narration), then the mux is announced and the
\* output path derived from the video selected at that moment
VerifyNarration ==
    /\ pc = "verify_narr"
    /\ \E o \in RunOutcomes(FfmpegStderr) :
         /\ calls' = Append(calls, Call("verify_audio", 0, 2, o.rc = 0, o.stderr))
         /\ IF o.rc = 0
            THEN /\ status' \in StatusOutcomes(status,
                                     Status("Muxing into video", 0, 0, 0), FALSE)
                 /\ used' = [used EXCEPT !.out = OutPath(video_path)]
                 /\ pc' = "pick_mux"
                 /\ UNCHANGED err
            ELSE /\ Raise(RuntimeError(
                        Details(verify_audio_cmd(NarrPath), <<>>, o.stderr)))
                 /\ UNCHANGED <<status, used>>
    /\ UNCHANGED <<inputVars, workers, tmpfiles, i, buildVars, fitVars, narration,
                   muxVars, alerts, restoreQueued>>

(* -------------------------- replace_video_audio ------------------------ *)

Encoder(codec, extra) == [codec |-> codec, extra |-> extra]

\* line 294: the list used when the encoder listing itself fails
DefaultEncoders ==
    <<Encoder("aac_at", <<>>), Encoder("aac", <<>>),
      Encoder("aac", <<"-strict", "-2">>)>>

\* the list without the unconditional last entry of line 291
EncodersFor_NoFallback(has_aac_at, has_aac) ==
    (IF has_aac_at THEN <<Encoder("aac_at", <<>>)>> ELSE <<>>)
        \o (IF has_aac THEN <<Encoder("aac", <<>>)>> ELSE <<>>)

\* lines 286-292: the list built from the encoders ffmpeg reports
EncodersFor(has_aac_at, has_aac) ==
    (IF has_aac_at THEN <<Encoder("aac_at", <<>>)>> ELSE <<>>)
        \o (IF has_aac THEN <<Encoder("aac", <<>>)>> ELSE <<>>)
        \o <<Encoder("aac", <<"-strict", "-2">>)>>

\* the mux command of one attempt: extra goes right before the output path
mux_cmd(e, in_video, in_audio, out_path) ==
    <<"ffmpeg", "-y", "-i", in_video, "-i", in_audio,
      "-map", "0:v:0", "-map", "1:a:0", "-c:v", "copy", "-c:a", e.codec,
      "-b:a", "192k", "-ar", "48000", "-ac", "2", "-movflags", "+faststart",
      "-shortest">> \o e.extra \o <<out_path>>

\* diagnostic text of a failing mux
MuxStderr == {<<"Unknown", "encoder">>}

\* the audio encoder lines `ffmpeg -encoders` may print: <<flags, name>>
EncoderLines == {<<"A....D", "aac">>, <<"A.....", "aac">>, <<"A....D", "aac_at">>}

\* line 286: " aac_at " in enc
HasAacAt(enc) == \E l \in enc : l[2] = "aac_at"

\* line 287: the pattern ^\s*A\.*\s+aac\s matches a line whose flags are an A
\* followed by dots only
HasAac(enc) == \E l \in enc : l[2] = "aac" /\ l[1] = "A....."

\* lines 532, 283-299: replace_video_audio is called on the video selected at
\* that moment; pick_mux_encoders, then the loop starts with no error yet
PickMuxEncoders ==
    /\ pc = "pick_mux"
    /\ \E o \in RunOutcomes(FfmpegStderr), enc \in SUBSET EncoderLines :
         /\ o.rc # 0 => enc = {}
         /\ calls' = Append(calls, Call("encoders", 0, 0, o.rc = 0, o.stderr))
         /\ encoders' = IF o.rc = 0 THEN EncodersFor(HasAacAt(enc), HasAac(enc))
                        ELSE DefaultEncoders
    /\ used' = [used EXCEPT !.video = video_path]
    /\ encIdx' = 1
    /\ last_err' = NoErr
    /\ pc' = "mux"
    /\ UNCHANGED <<inputVars, workers, tmpfiles, i, buildVars, fitVars, narration, out_video,
                   err, uiVars>>

\* MuxAttempt without the return of line 315: the loop goes on after a success
MuxAttempt_KeepGoing ==
    /\ pc = "mux"
    /\ encIdx <= Len(encoders)
    /\ \E o \in RunOutcomes(MuxStderr), audio \in BOOLEAN :
         LET cmd == mux_cmd(encoders[encIdx], PathStr(used.video),
                            NarrPath, PathStr(used.out))
         IN  /\ calls' = Append(calls, Call("mux", 0, encIdx, o.rc = 0, o.stderr))
             /\ o.rc # 0 => ~audio
             /\ out_video' = [written |-> o.rc = 0, audio |-> audio]
             /\ encIdx' = encIdx + 1
             /\ last_err' = IF o.rc = 0 THEN last_err
                            ELSE RuntimeError(Details(cmd, <<>>, o.stderr))
             /\ UNCHANGED pc
    /\ UNCHANGED <<inputVars, workers, used, tmpfiles, i, buildVars, fitVars, narration, encoders,
                   err, uiVars>>

\* lines 300-318: one pass of the for loop: the attempt returns on a zero
\* exit, otherwise its error is remembered and the loop goes on
MuxAttempt ==
    /\ pc = "mux"
    /\ encIdx <= Len(encoders)
    /\ \E o \in RunOutcomes(MuxStderr), audio \in BOOLEAN :
         LET cmd == mux_cmd(encoders[encIdx], PathStr(used.video),
                            NarrPath, PathStr(used.out))
         IN  /\ calls' = Append(calls, Call("mux", 0, encIdx, o.rc = 0, o.stderr))
             /\ o.rc # 0 => ~audio
             /\ out_video' = [written |-> o.rc = 0, audio |-> audio]
             /\ IF o.rc = 0
                THEN /\ pc' = "mux_ret"
                     /\ UNCHANGED <<encIdx, last_err>>
                ELSE /\ last_err' = RuntimeError(Details(cmd, <<>>, o.stderr))
                     /\ encIdx' = encIdx + 1
                     /\ UNCHANGED pc
    /\ UNCHANGED <<inputVars, workers, used, tmpfiles, i, buildVars, fitVars, narration, encoders,
                   err, uiVars>>

\* lines 319-320: the list is exhausted
MuxLoopEnd ==
    /\ pc = "mux"
    /\ encIdx > Len(encoders)
    /\ IF last_err # NoErr
       THEN Raise(last_err)
       ELSE pc' = "mux_ret" /\ UNCHANGED err
    /\ UNCHANGED <<inputVars, workers, used, tmpfiles, i, buildVars, fitVars, narration, muxVars,
                   calls, uiVars>>

(* ----------------------- _do_replace, the way out ---------------------- *)

\* lines 532-537: replace_video_audio returned, the with block of line 516
\* is left and the run reports Done
Done ==
    /\ pc = "mux_ret"
    /\ tmpfiles' = Cleanup("td3")
    /\ status' \in StatusOutcomes(status, Status("Done", 0, 0, 0), FALSE)
    /\ pc' = "finally"
    /\ UNCHANGED <<inputVars, workers, used, i, buildVars, fitVars, narration,
                   muxVars, err, calls, alerts, restoreQueued>>

\* the except clause after directories made with mkdtemp, which nothing
\* removes when an exception passes
Except_KeepsFiles ==
    /\ pc = "raised"
    /\ tmpfiles' = tmpfiles
    /\ alerts' = Append(alerts, [title |-> "Command Error", message |-> err.msg])
    /\ status' \in StatusOutcomes(status, Status("Error", 0, 0, 0), FALSE)
    /\ pc' = "finally"
    /\ UNCHANGED <<inputVars, workers, used, i, buildVars, fitVars, narration,
                   muxVars, err, calls, restoreQueued>>

\* lines 539-544: on its way here the exception left every with block it was
\* raised in; the alert is queued for the main thread, the status is Error
Except ==
    /\ pc = "raised"
    /\ tmpfiles' = {}
    /\ alerts' = Append(alerts, [title |-> "Command Error", message |-> err.msg])
    /\ status' \in StatusOutcomes(status, Status("Error", 0, 0, 0), FALSE)
    /\ pc' = "finally"
    /\ UNCHANGED <<inputVars, workers, used, i, buildVars, fitVars, narration,
                   muxVars, err, calls, restoreQueued>>

\* the hand-back of the button placed at the end of the try block instead of
\* a finally clause: a failed run never queues it
Finally_OnlyAfterSuccess ==
    /\ pc = "finally"
    /\ restoreQueued' = (err = NoErr)
    /\ workers' = workers - 1
    /\ pc' = "end"
    /\ UNCHANGED <<inputVars, used, tmpfiles, i, buildVars, fitVars, narration,
                   muxVars, err, calls, status, alerts>>

\* lines 545-546: _restoreButton is queued and the thread ends
Finally ==
    /\ pc = "finally"
    /\ restoreQueued' = TRUE
    /\ workers' = workers - 1
    /\ pc' = "end"
    /\ UNCHANGED <<inputVars, used, tmpfiles, i, buildVars, fitVars, narration,
                   muxVars, err, calls, status, alerts>>

(* --------------------------- specifications ---------------------------- *)

Next ==
    \/ Parse \/ NextCue
    \/ Say \/ SayRetry
    \/ AiffToWav \/ VerifyWav
    \/ FitSilence \/ FitStage \/ FitTrim
    \/ VerifyFit \/ OverlayCue
    \/ Export \/ VerifyNarration
    \/ PickMuxEncoders \/ MuxAttempt \/ MuxLoopEnd
    \/ Done \/ Except \/ Finally

\* one whole run of _do_replace
Spec == Init /\ [][Next]_vars

OneCue(content) == <<[start |-> 0, end |-> 0, content |-> content]>>

\* mac_say_to_aiff on its own: any non-empty compacted text, any voice or none
InitSay ==
    /\ subs \in {OneCue(c) : c \in {t \in SeqsUpTo(Tokens, MaxTextLen) : compact(t) # <<>>}}
    /\ voice \in Voices \cup {""}
    /\ pc = "say"
    /\ i = 1
    /\ timeline = Silent(TotalMs(subs))
    /\ status = Status("Generating speech", 1, 1, Pct(1, 1))
    /\ srtfiles = [f \in {PathStr(SrtA)} |-> subs]
    /\ Started(VideoA, SrtA)
    /\ used = [NoPathsRead EXCEPT !.srt = SrtA]
    /\ tmpfiles = {}
    /\ status_cb = "ok"
    /\ Fresh

NextSay == Say \/ SayRetry

SpecSay == InitSay /\ [][NextSay]_vars

\* time_stretch_to_duration on its own: any target, any input clip
InitFit ==
    /\ subs = OneCue(<<"hi">>)
    /\ voice = "Samantha"
    /\ pc = "fit"
    /\ i = 1
    /\ timeline = Silent(TotalMs(subs))
    /\ wav \in {Clip(c, FALSE) : c \in 0..MaxClip}
    /\ target \in (0 - 2)..MaxTarget
    /\ cur_ms = Unmeasured
    /\ steps = <<>>
    /\ st = NoFile
    /\ fit = NoFile
    /\ narration = NoFile
    /\ encoders = <<>>
    /\ encIdx = 0
    /\ last_err = NoErr
    /\ out_video = NoOutput
    /\ err = NoErr
    /\ calls = <<>>
    /\ status = Status("Generating speech", 1, 1, Pct(1, 1))
    /\ alerts = <<>>
    /\ restoreQueued = FALSE
    /\ srtfiles = [f \in {PathStr(SrtA)} |-> subs]
    /\ Started(VideoA, SrtA)
    /\ used = [NoPathsRead EXCEPT !.srt = SrtA]
    /\ tmpfiles = {TmpFile("td", AiffPath(1)), TmpFile("td", WavPath(1))}
    /\ status_cb = "ok"

NextFit == FitSilence \/ FitStage \/ FitTrim

SpecFit == InitFit /\ [][NextFit]_vars

\* replace_video_audio on its own
InitMux ==
    /\ subs \in {<<c>> : c \in Cues}
    /\ voice \in Voices
    /\ pc = "pick_mux"
    /\ i = 2
    /\ timeline = Silent(TotalMs(subs))
    /\ wav = NoFile
    /\ target = 0
    /\ cur_ms = Unmeasured
    /\ steps = <<>>
    /\ st = NoFile
    /\ fit = NoFile
    /\ narration = Clip(timeline.duration, TRUE)
    /\ encoders = <<>>
    /\ encIdx = 0
    /\ last_err = NoErr
    /\ out_video = NoOutput
    /\ err = NoErr
    /\ calls = <<>>
    /\ status = Status("Muxing into video", 0, 0, 0)
    /\ alerts = <<>>
    /\ restoreQueued = FALSE
    /\ srtfiles = [f \in {PathStr(SrtA)} |-> subs]
    /\ Started(VideoA, SrtA)
    /\ used = [NoPathsRead EXCEPT !.srt = SrtA, !.out = OutPath(VideoA)]
    /\ tmpfiles = {TmpFile(NarrDir, NarrPath)}
    /\ status_cb = "ok"

NextMux == PickMuxEncoders \/ MuxAttempt \/ MuxLoopEnd

SpecMux == InitMux /\ [][NextMux]_vars

\* one run as in Init on a file of at most one cue, with status reports
\* absent, working, or failing inside setStatus
InitStatus ==
    /\ srtfiles \in [{PathStr(SrtA)} -> {<<>>} \cup {<<c>> : c \in Cues}]
    /\ subs = <<>>
    /\ Started(VideoA, SrtA)
    /\ used = NoPathsRead
    /\ tmpfiles = {}
    /\ status_cb \in StatusModes
    /\ voice = "Samantha"
    /\ pc = "start"
    /\ i = 0
    /\ timeline = EmptyTimeline
    /\ status = IdleStatus
    /\ Fresh

SpecStatus == InitStatus /\ [][Next]_vars

(* ------------------------- the App's main thread ----------------------- *)

\* what can be dropped on the window
DroppedPaths ==
    {FilePath("a", ".mp4"), FilePath("B", ".MP4"),
     FilePath("a", ".srt"), FilePath("b", ".srt"), FilePath("notes", ".txt")}

\* what pysrt reads from the two subtitle files: one spoken cue, one cue
\* without text
AppSrtFiles ==
    [f \in {"a.srt", "b.srt"} |->
        IF f = "a.srt" THEN <<Cue(0, 1001000, <<"hi">>)>>
        ELSE <<Cue(1001000, 1001000, <<" ", "\n">>)>>]

RECURSIVE LastDropped(_, _, _)
\* the loop of lines 456-464 for one of the two fields: the last path with
\* the extension wins, without one the field keeps its value
LastDropped(paths, ext, cur) ==
    IF paths = <<>> THEN cur
    ELSE LastDropped(Tail(paths), ext,
                     IF Lower(Head(paths).suffix) = ext THEN Head(paths) ELSE cur)

\* the fields of the worker thread, which no main-thread handler touches
workerVars == <<subs, pc, i, timeline, wav, fitVars, narration, muxVars, err,
                calls, used, workers, tmpfiles>>

\* lines 455-464: paths are dropped on the window, at any time
HandleDropped ==
    /\ \E paths \in SeqsUpTo(DroppedPaths, MaxDrop) :
         /\ paths # <<>>
         /\ video_path' = LastDropped(paths, ".mp4", video_path)
         /\ srt_path' = LastDropped(paths, ".srt", srt_path)
    /\ UNCHANGED <<workerVars, voice, srtfiles, clicked, btnEnabled, status_cb, uiVars>>

\* onReplace_ without setEnabled_(False)
OnReplace_StaysEnabled ==
    /\ btnEnabled
    /\ alerts = <<>>
    /\ IF video_path = NoPath \/ srt_path = NoPath
       THEN /\ alerts' = <<[title |-> "Missing Files",
                            message |-> <<"Drop", "both", "a", ".mp4", "and", "a",
                                          ".srt", "first.">>]>>
            /\ UNCHANGED <<workerVars, voice, clicked, btnEnabled>>
       ELSE /\ UNCHANGED btnEnabled
            /\ voice' \in Voices
            /\ clicked' = [video |-> video_path, srt |-> srt_path]
            /\ workers' = workers + 1
            /\ pc' = "start"
            /\ subs' = <<>>
            /\ i' = 0
            /\ timeline' = EmptyTimeline
            /\ wav' = NoFile
            /\ target' = 0
            /\ cur_ms' = Unmeasured
            /\ steps' = <<>>
            /\ st' = NoFile
            /\ fit' = NoFile
            /\ narration' = NoFile
            /\ encoders' = <<>>
            /\ encIdx' = 0
            /\ last_err' = NoErr
            /\ out_video' = NoOutput
            /\ err' = NoErr
            /\ calls' = <<>>
            /\ used' = NoPathsRead
            /\ UNCHANGED <<alerts, tmpfiles>>
    /\ UNCHANGED <<video_path, srt_path, srtfiles, status_cb, status, restoreQueued>>

\* lines 489-499: a click on Replace Audio, which only an enabled button
\* delivers and a modal alert holds back.  Without both files an alert is
\* queued; otherwise the button is disabled, the voice popup read and a
\* worker thread started with nothing read, written or run yet.
OnReplace ==
    /\ btnEnabled
    /\ alerts = <<>>
    /\ IF video_path = NoPath \/ srt_path = NoPath
       THEN /\ alerts' = <<[title |-> "Missing Files",
                            message |-> <<"Drop", "both", "a", ".mp4", "and", "a",
                                          ".srt", "first.">>]>>
            /\ UNCHANGED <<workerVars, voice, clicked, btnEnabled>>
       ELSE /\ btnEnabled' = FALSE
            /\ voice' \in Voices
            /\ clicked' = [video |-> video_path, srt |-> srt_path]
            /\ workers' = workers + 1
            /\ pc' = "start"
            /\ subs' = <<>>
            /\ i' = 0
            /\ timeline' = EmptyTimeline
            /\ wav' = NoFile
            /\ target' = 0
            /\ cur_ms' = Unmeasured
            /\ steps' = <<>>
            /\ st' = NoFile
            /\ fit' = NoFile
            /\ narration' = NoFile
            /\ encoders' = <<>>
            /\ encIdx' = 0
            /\ last_err' = NoErr
            /\ out_video' = NoOutput
            /\ err' = NoErr
            /\ calls' = <<>>
            /\ used' = NoPathsRead
            /\ UNCHANGED <<alerts, tmpfiles>>
    /\ UNCHANGED <<video_path, srt_path, srtfiles, status_cb, status, restoreQueued>>

\* lines 480-483: the main thread runs the queued _restoreButton
RestoreButton ==
    /\ restoreQueued
    /\ restoreQueued' = FALSE
    /\ btnEnabled' = TRUE
    /\ UNCHANGED <<workerVars, voice, video_path, srt_path, srtfiles, clicked,
                   status_cb, status, alerts>>

\* lines 470-478: the main thread shows the oldest queued alert and the user
\* dismisses it
ShowAlert ==
    /\ alerts # <<>>
    /\ alerts' = Tail(alerts)
    /\ UNCHANGED <<workerVars, voice, appVars, status, restoreQueued>>

\* the App after init: nothing dropped, no voice read, the button enabled
InitApp ==
    /\ video_path = NoPath
    /\ srt_path = NoPath
    /\ clicked = [video |-> NoPath, srt |-> NoPath]
    /\ btnEnabled = TRUE
    /\ workers = 0
    /\ srtfiles = AppSrtFiles
    /\ subs = <<>>
    /\ used = NoPathsRead
    /\ tmpfiles = {}
    /\ status_cb = "ok"
    /\ voice = ""
    /\ pc = "idle"
    /\ i = 0
    /\ timeline = EmptyTimeline
    /\ status = IdleStatus
    /\ Fresh

NextApp == Next \/ HandleDropped \/ OnReplace \/ RestoreButton \/ ShowAlert

\* the App with its user: drops and clicks at any time, run after run
SpecApp == InitApp /\ [][NextApp]_vars

\* the same, where a started worker thread keeps running (every subprocess
\* returns) and the main run loop gets to the selectors queued on it
SpecAppLive ==
    /\ SpecApp
    /\ WF_vars(Next)
    /\ WF_vars(RestoreButton)

(* =============================== claims ================================ *)

CallsOf(op) == SelectSeq(calls, LAMBDA c : c.op = op)

(* ----------------------- Mux Fallback Engine --------------------------- *)

MuxCalls == CallsOf("mux")

\* C1: the encoder attempts are invoked strictly in list order, one at a
\* time: the k-th invocation is attempt k of the list, it happens only after
\* attempts 1..k-1 were invoked and failed, and nothing is invoked after the
\* first attempt that succeeds.
C1_AttemptsInOrderUntilFirstSuccess ==
    /\ Len(MuxCalls) <= Len(encoders)
    /\ \A k \in 1..Len(MuxCalls) :
         /\ MuxCalls[k].arg = k
         /\ \A j \in 1..(k - 1) : ~MuxCalls[j].ok
    /\ pc = "mux" => Len(MuxCalls) = encIdx - 1
    /\ pc = "mux_ret" => MuxCalls[Len(MuxCalls)].ok

\* the third attempt of a three-entry list succeeded after two failures
C1_Witness ==
    /\ pc = "mux_ret"
    /\ Len(encoders) = 3
    /\ Len(MuxCalls) = 3
    /\ ~MuxCalls[1].ok /\ ~MuxCalls[2].ok /\ MuxCalls[3].ok

\* the failure of attempt k alone, as run() words it
AttemptErrors(k) ==
    {RuntimeError(Details(mux_cmd(encoders[k], PathStr(used.video), NarrPath,
                                  PathStr(used.out)), <<>>, e)) : e \in MuxStderr}

\* C2: when every attempt fails the error raised is an aggregate of all the
\* attempts tried, not the failure of one single attempt with the others
\* hidden.
C2_AggregateOfAllAttempts ==
    (pc = "raised" /\ Len(encoders) > 1)
        => /\ err.type = "AllEncodersFailed"
           /\ \A k \in 1..Len(encoders) : err \notin AttemptErrors(k)

\* C3: the engine returns success only for an attempt whose output was
\* probed after the invocation and found to hold a decodable audio stream.
C3_SuccessRequiresProbedAudio ==
    pc = "mux_ret"
        => /\ calls[Len(calls)].op = "probe"
           /\ out_video.audio

(* --------------------------- Cue Synthesizer --------------------------- *)

SayCalls == CallsOf("say")

\* the failure class "invalid / unknown voice" of the synthesis engine
InvalidVoiceFailure(c) == ~c.ok /\ LooksLikeVoiceError(c.diag)

\* C4: at most two invocations per cue; the first failure is retried (once,
\* without a voice argument) if and only if it is an invalid-voice failure,
\* whatever the cue text and the voice are; any other failure propagates
\* immediately, and so does a failure of the retry.
C4_RetryIffInvalidVoice ==
    /\ Len(SayCalls) <= 2
    /\ Len(SayCalls) = 2 => /\ InvalidVoiceFailure(SayCalls[1])
                            /\ SayCalls[2].arg = 0
    /\ (Len(SayCalls) = 1 /\ InvalidVoiceFailure(SayCalls[1])) => pc = "say_retry"
    /\ (Len(SayCalls) >= 1 /\ ~SayCalls[Len(SayCalls)].ok
            /\ ~(Len(SayCalls) = 1 /\ InvalidVoiceFailure(SayCalls[1])))
         => pc = "raised"

(* --------------------------- Duration Fitter --------------------------- *)

RECURSIVE NumProduct(_)
NumProduct(chain) == IF chain = <<>> THEN 1 ELSE Head(chain)[1] * NumProduct(Tail(chain))
RECURSIVE DenProduct(_)
DenProduct(chain) == IF chain = <<>> THEN 1 ELSE Head(chain)[2] * DenProduct(Tail(chain))

\* 0.5 <= s <= 2.0, for the fraction and for the six-decimal text of it
InTempoRange(s) ==
    /\ 2 * s[1] >= s[2]
    /\ s[1] <= 2 * s[2]
    /\ AtempoArg(s) >= 500000
    /\ AtempoArg(s) <= 2000000

\* the fitter measured a positive clip for a positive target and ran stage()
StageRan == target > 0 /\ cur_ms > 0

\* C5: for T > 0 and C > 0 the decomposition of factor = T/C ends with a
\* non-empty chain, every element of which lies in [0.5, 2.0] and whose
\* product is the factor.
C5_TempoChainBoundedAndExact ==
    StageRan
        => /\ steps # <<>>
           /\ \A k \in 1..Len(steps) : InTempoRange(steps[k])
           /\ NumProduct(steps) * cur_ms = DenProduct(steps) * target

\* a chain of three halvings and a remainder, and (elsewhere) of doublings
C5_Witness ==
    /\ StageRan
    /\ Len(steps) = 4
    /\ steps[1] = <<1, 2>>
    /\ steps[4] # <<1, 1>>

\* C6: for C > 0 and T > 0 the emitted clip lasts exactly T: the final clamp
\* trims a longer stage and pads a shorter one.
C6_FittedClipHasTargetDuration ==
    (StageRan /\ pc = "verify_fit") => fit.dur = target

\* the degenerate inputs: no positive target, or a clip measured as 0 ms
\* (a clip that cannot be read counts as 0)
Degenerate == target <= 0 \/ cur_ms = 0

SilenceCalls == CallsOf("silence")

\* C7 as stated: for T <= 0 or C <= 0 the output is silence of length
\* max(T, 1 ms) and the call never ends in an error.
C7_SilenceNeverRaises ==
    (Degenerate /\ pc # "fit")
        => /\ pc = "verify_fit"
           /\ fit = Clip(Max(target, 1), TRUE)

\* C7 (amended): for T <= 0 or C <= 0 the fitter runs no tempo chain and no
\* trim but exactly one silence-generating invocation of length
\* max(T, 1 ms); if the invocation succeeds the output is silence of that
\* length, and the call ends in an error exactly when the invocation fails.
C7_SilenceUnlessInvocationFails ==
    (Degenerate /\ pc # "fit")
        => /\ Len(SilenceCalls) = 1
           /\ SilenceCalls[1].arg = 1000 * Max(target, 1)
           /\ CallsOf("atempo") = <<>> /\ CallsOf("trim") = <<>>
           /\ pc \in {"verify_fit", "raised"}
           /\ pc = "verify_fit" <=> SilenceCalls[1].ok
           /\ pc = "verify_fit" => fit = Clip(Max(target, 1), TRUE)
           /\ pc = "raised" => fit = NoFile /\ err.type = "RuntimeError"

\* a negative target produced one millisecond of silence
C7_Witness ==
    /\ target < 0
    /\ pc = "verify_fit"
    /\ fit = Clip(1, TRUE)

(* ------------------------- Timeline Compositor ------------------------- *)

\* the base track has been allocated
Allocated == pc \notin {"start"} /\ i >= 1

IsEmptyText(c) == compact(c.content) = <<>>

\* C8: from allocation on, through every overlay and up to the timeline
\* that build_timed_track_from_srt returns, the timeline is exactly
\* ms(end of the last supplied cue) + 500 ms long.
C8_TimelineLengthFixed ==
    Allocated => timeline.duration = ms(subs[Len(subs)].end) + TrailingPadMs

\* the timeline was returned after a clip was overlaid at an offset beyond
\* its end, the last cue not being the one with the greatest end
C8_Witness ==
    /\ pc = "export"
    /\ \E k \in 1..Len(subs) : subs[k].end > subs[Len(subs)].end
    /\ \E k \in 1..Len(timeline.overlays) :
         timeline.overlays[k].position > timeline.duration

\* the cues that have been passed by the loop so far and carry text
SpokenBefore(n) == SelectSeq(SubSeq(subs, 1, n), LAMBDA c : ~IsEmptyText(c))

\* the loop is at the head of an empty-text cue
AtEmptyCue == pc = "cue" /\ i <= Len(subs) /\ IsEmptyText(subs[i])

\* C9: an empty-text cue causes no synthesis, normalization, verification,
\* fitting or overlay and leaves the timeline as it is; the overlays of the
\* timeline are those of the text-carrying cues, each at its own start,
\* whether or not empty cues stand between them.
C9_EmptyCueLeavesNoTrace ==
    /\ [](\A k \in 1..Len(calls) :
            calls[k].cue # 0 => ~IsEmptyText(subs[calls[k].cue]))
    /\ []((Allocated /\ pc \in {"cue", "export"})
            => LET spoken == SpokenBefore(i - 1)
               IN  /\ Len(timeline.overlays) = Len(spoken)
                   /\ \A k \in 1..Len(spoken) :
                        timeline.overlays[k].position = ms(spoken[k].start))
    /\ [][AtEmptyCue => /\ UNCHANGED <<timeline, calls, wav, fit, status, err>>
                        /\ i' = i + 1
                        /\ pc' = "cue"]_vars

\* a timeline was returned for an empty-text cue followed by a spoken one
C9_Witness ==
    /\ pc = "export"
    /\ Len(subs) = 2
    /\ IsEmptyText(subs[1])
    /\ Len(timeline.overlays) = 1
    /\ timeline.overlays[1].position = ms(subs[2].start)

\* a failed operation that the code is allowed to follow up: the first
\* `say` of a cue (voice fallback) and the encoder listing and attempts
MayContinueAfter(k) ==
    \/ calls[k].op \in {"mux", "encoders"}
    \/ /\ calls[k].op = "say"
       /\ calls[k + 1].op = "say"
       /\ calls[k + 1].cue = calls[k].cue
       /\ k = 1 \/ calls[k - 1].op # "say"

\* C10: a failed synthesis, normalization, verification, fit or export is
\* the last operation of the run: no later cue is synthesized or overlaid,
\* nothing is exported or muxed, no timeline is returned, and the run ends
\* with status Error; the only repeated operation is the one voice-fallback
\* retry.
C10_FailureAbortsRun ==
    /\ \A k \in 1..(Len(calls) - 1) : ~calls[k].ok => MayContinueAfter(k)
    /\ (calls # <<>> /\ ~calls[Len(calls)].ok /\ calls[Len(calls)].op \notin {"mux", "encoders"})
          => \/ pc = "say_retry"
             \/ /\ pc \in {"raised", "finally", "end"}
                /\ err.type # "none"
                /\ out_video = NoOutput
                /\ calls[Len(calls)].cue # 0 => narration = NoFile
    /\ (pc = "end" /\ err.type # "none")
          => /\ status.text = "Error"
             /\ Len(alerts) = 1
             /\ alerts[1].message = err.msg
    /\ \A k \in 1..Len(calls) : \A j \in (k + 1)..Len(calls) :
          (calls[k].op = calls[j].op /\ calls[k].cue = calls[j].cue
                 /\ calls[k].arg = calls[j].arg)
             => calls[k].op \in {"say", "mux"} /\ j = k + 1

\* the fit of the first of two spoken cues failed verification and the run
\* ended without touching the second
C10_Witness ==
    /\ pc = "end"
    /\ Len(subs) = 2
    /\ ~IsEmptyText(subs[2])
    /\ calls # <<>>
    /\ calls[Len(calls)] = Call("verify_audio", 1, 1, FALSE, <<"Conversion", "failed!">>)
    /\ status.text = "Error"

(* --------------------------- Audio Verifier ---------------------------- *)

LastCall == calls[Len(calls)]

\* the verification that has just failed is the reason of the exception
VerifierRejected ==
    /\ pc = "raised"
    /\ calls # <<>>
    /\ LastCall.op = "verify_audio"
    /\ ~LastCall.ok

\* the four conditions the verifier is to tell apart, in the order of its
\* checks: existence, byte floor, audio stream, duration floor
VerifierConditions == <<"missing", "too-small", "no-audio-stream", "too-short">>

\* C11: the verifier checks existence, size, audio stream and duration in
\* that order and stops at the first failing check, so that every rejection
\* carries the name of exactly the check that failed and every clip that
\* passed has a duration above the floor.
C11_FourOrderedNamedChecks ==
    /\ VerifierRejected =>
           \E k \in 1..Len(VerifierConditions) : err.type = VerifierConditions[k]
    /\ pc = "fit" => wav.dur > 0

\* the k-th call is a passed verification of a clip of cue c; the kind says
\* which: 0 the normalized wav, 1 the fitted clip, 2 the narration, and 3
\* would be the synthesized AIFF
PassedVerify(k, c, kind) ==
    /\ k \in 1..Len(calls)
    /\ calls[k] = Call("verify_audio", c, kind, TRUE, <<>>)

\* the k-th call is the named operation on cue c, and it succeeded
Succeeded(k, ops, c) ==
    /\ k \in 1..Len(calls)
    /\ calls[k].op \in ops
    /\ calls[k].cue = c
    /\ calls[k].ok

\* every verification follows the production of the clip it is run on
VerifiedAfterProduced ==
    \A k \in 1..Len(calls) :
        calls[k].op = "verify_audio" =>
            CASE calls[k].arg = 0 -> Succeeded(k - 1, {"aiff_to_wav"}, calls[k].cue)
              [] calls[k].arg = 1 -> Succeeded(k - 1, {"silence", "trim"}, calls[k].cue)
              [] calls[k].arg = 2 -> Succeeded(k - 1, {"export"}, 0)
              [] OTHER -> FALSE

\* the normalized clip is fitted, the fitted clip overlaid and the narration
\* muxed only right after it passed its verification
VerifiedBeforeUsed ==
    \A k \in 1..Len(calls) :
        /\ calls[k].op \in {"silence", "atempo"} => PassedVerify(k - 1, calls[k].cue, 0)
        /\ calls[k].op = "overlay" => PassedVerify(k - 1, calls[k].cue, 1)
        /\ calls[k].op = "encoders" => PassedVerify(k - 1, 0, 2)
        /\ calls[k].op = "mux" => \E j \in 1..(k - 1) : PassedVerify(j, 0, 2)

\* C12 as claimed: each of the synthesized clip, the normalized clip, the
\* fitted clip and the exported narration is verified after it is produced
\* and before it is normalized, fitted, overlaid and muxed respectively.
C12_EveryStageOutputVerified ==
    /\ VerifiedAfterProduced
    /\ VerifiedBeforeUsed
    /\ \A k \in 1..Len(calls) :
         calls[k].op = "aiff_to_wav" => PassedVerify(k - 1, calls[k].cue, 3)

\* C12: the normalized clip, the fitted clip and the exported narration are
\* each verified right after they are produced and before they are fitted,
\* overlaid and muxed; the synthesized clip goes from `say` straight into the
\* normalization, and is verified only in its normalized form.
C12_VerifiedAfterNormalizeFitExport ==
    /\ VerifiedAfterProduced
    /\ VerifiedBeforeUsed
    /\ \A k \in 1..Len(calls) :
         calls[k].op = "aiff_to_wav" => Succeeded(k - 1, {"say"}, calls[k].cue)

\* a run that overlaid a stretched clip and muxed the narration
C12_Witness ==
    /\ pc = "end"
    /\ \E k \in 1..Len(calls) : calls[k].op = "trim"
    /\ \E k \in 1..Len(calls) : calls[k].op = "overlay"
    /\ \E k \in 1..Len(calls) : calls[k].op = "mux" /\ calls[k].ok

(* ------------------------- Pipeline Orchestrator ----------------------- *)

\* the step in which the except clause of _do_replace runs
ExceptStep == pc = "raised" /\ pc' = "finally"

\* a failed run reaches the except clause once, and from there only the
\* finally clause and the end of the thread
FailsOnce ==
    /\ pc = "raised" => pc' \in {"raised", "finally"}
    /\ pc = "finally" => pc' \in {"finally", "end"}
    /\ pc = "end" => pc' \in {"end", "start"}

\* the worker thread queues an alert only in its except clause: one alert,
\* which carries the text of the failure, together with the status Error
OneAlertPerFailure ==
    /\ ExceptStep =>
         /\ alerts' = Append(alerts, [title |-> "Command Error", message |-> err.msg])
         /\ err # NoErr
         /\ status'.text = "Error"
    /\ (workers > 0 /\ ~ExceptStep) => Len(alerts') <= Len(alerts)

\* a run that failed ends with the status Error, a run that did not with Done
EndsInErrorNotDone ==
    pc \in {"finally", "end"} =>
        status.text = (IF err # NoErr THEN "Error" ELSE "Done")

\* C13: every started run eventually gives the Replace Audio button back
\* enabled, whichever way it ends; a run that ends in a failure queues exactly
\* one alert carrying the failure's message and leaves the status at Error,
\* never at Done.
C13_ButtonRestoredAndFailureReported ==
    /\ (~btnEnabled) ~> btnEnabled
    /\ [][FailsOnce /\ OneAlertPerFailure]_vars
    /\ []EndsInErrorNotDone

\* a run failed, its alert is queued and the button is enabled again
C13_Witness ==
    /\ pc = "end"
    /\ err # NoErr
    /\ btnEnabled
    /\ alerts = <<[title |-> "Command Error", message |-> err.msg]>>
    /\ status.text = "Error"

\* where the worker thread is inside the with block of each directory
InsideOf(dir) ==
    CASE dir = "td" -> {"cue", "say", "say_retry", "aiff_to_wav", "verify_wav",
                        "fit", "fit_trim", "verify_fit", "overlay", "raised"}
      [] dir = "td2" -> {"fit_trim", "raised"}
      [] dir = "td3" -> {"verify_narr", "pick_mux", "mux", "mux_ret", "raised"}
      [] OTHER -> {}

\* C14: every transient file (synthesized, normalized, tempo stage, fitted,
\* narration) exists only while the thread is inside the with block of its
\* temporary directory, so that once the run has ended, normally or in an
\* error, no intermediate file is left.
C14_TransientFilesReleased ==
    /\ \A f \in tmpfiles : pc \in InsideOf(f.dir)
    /\ pc \in {"finally", "end"} => tmpfiles = {}

\* a run that had synthesized, normalized and stretched a clip failed, and
\* ended with nothing left behind
C14_Witness ==
    /\ pc = "end"
    /\ err # NoErr
    /\ \E k \in 1..Len(calls) : calls[k].op = "trim" /\ calls[k].ok
    /\ tmpfiles = {}

(* ------------------------ Timeline Compositor -------------------------- *)

\* the fitter has been called for the current cue
FitterCalled == pc \in {"fit", "fit_trim", "verify_fit", "overlay"}

OverlayCalls == CallsOf("overlay")

\* every fitted clip is overlaid at the absolute offset of its cue's start
OverlaidAtCueStart ==
    /\ Len(timeline.overlays) = Len(OverlayCalls)
    /\ \A k \in 1..Len(OverlayCalls) :
         /\ OverlayCalls[k].arg = ms(subs[OverlayCalls[k].cue].start)
         /\ timeline.overlays[k].position = OverlayCalls[k].arg

\* C16 as claimed: the target handed to the fitter is the cue's span
\* end - start, for every span, also one under 120 ms or of zero length, and
\* the fitted clip is overlaid at the absolute offset start.
C16_TargetIsCueSpan ==
    /\ FitterCalled => target = ms(subs[i].end - subs[i].start)
    /\ OverlaidAtCueStart

\* C16: the target handed to the fitter is the cue's span end - start in
\* whole milliseconds, raised to 120 ms when the span is shorter (a zero-length
\* cue is fitted to 120 ms); the silence and the trim are asked for exactly
\* that length, and the fitted clip is overlaid at the absolute offset start.
C16_TargetIsSpanFlooredAt120 ==
    /\ FitterCalled =>
         target = (IF ms(subs[i].end - subs[i].start) < MinTargetMs THEN MinTargetMs
                   ELSE ms(subs[i].end - subs[i].start))
    /\ \A k \in 1..Len(calls) :
         calls[k].op \in {"silence", "trim"} =>
             LET span == ms(subs[calls[k].cue].end - subs[calls[k].cue].start)
             IN  calls[k].arg = 1000 * (IF span < MinTargetMs THEN MinTargetMs ELSE span)
    /\ OverlaidAtCueStart

\* the clip of a zero-length cue was fitted to 120 ms and overlaid at the
\* cue's start
C16_Witness ==
    /\ pc = "cue"
    /\ calls # <<>>
    /\ LastCall.op = "overlay"
    /\ subs[LastCall.cue].end = subs[LastCall.cue].start
    /\ target = MinTargetMs
    /\ fit.dur = MinTargetMs
    /\ timeline.overlays[Len(timeline.overlays)].position = ms(subs[LastCall.cue].start)

\* the operations of a cue, and what may directly follow each within the cue
CueOps == {"say", "aiff_to_wav", "verify_audio", "silence", "atempo", "trim", "overlay"}

NextInCue(c) ==
    CASE c.op = "say" -> IF c.ok THEN {"aiff_to_wav"} ELSE {"say"}
      [] c.op = "aiff_to_wav" -> {"verify_audio"}
      [] c.op = "verify_audio" -> IF c.arg = 0 THEN {"silence", "atempo"} ELSE {"overlay"}
      [] c.op = "atempo" -> {"trim"}
      [] c.op \in {"silence", "trim"} -> {"verify_audio"}
      [] OTHER -> {}

\* number of cues of the file that carry text
SpokenCount == Len(SelectSeq(subs, LAMBDA c : ~IsEmptyText(c)))

\* the log is one block of operations per cue, the blocks in the order of
\* the file; a block starts with the synthesis, only after the overlay of
\* the block before, and export and mux come after the overlay of the last
\* cue that carries text
CuesOneAfterTheOther ==
    /\ (calls # <<>> /\ LastCall.cue = 0) => Len(OverlayCalls) = SpokenCount
    /\ \A k \in 1..Len(calls) :
           /\ calls[k].cue # 0 =>
                /\ calls[k].cue \in 1..Len(subs)
                /\ ~IsEmptyText(subs[calls[k].cue])
                /\ calls[k].op \in CueOps
                /\ calls[k].cue <= i
           /\ (k > 1 /\ calls[k].cue # 0) =>
                /\ calls[k - 1].cue # 0
                /\ calls[k - 1].cue <= calls[k].cue
                /\ calls[k - 1].cue = calls[k].cue => calls[k].op \in NextInCue(calls[k - 1])
                /\ calls[k - 1].cue < calls[k].cue =>
                       calls[k - 1].op = "overlay" /\ calls[k].op = "say"
           /\ (k = 1 /\ calls[k].cue # 0) => calls[k].op = "say"
           /\ (k > 1 /\ calls[k].cue = 0) =>
                calls[k - 1].op \in {"overlay", "export", "verify_audio", "encoders", "mux"}

\* one writer: a step runs at most one operation, and the timeline changes
\* only when it is allocated and in the overlay of the current cue
OneWriter ==
    /\ Len(calls') <= Len(calls) + 1
    /\ timeline' # timeline => pc \in {"start", "overlay"}
    /\ (timeline' # timeline /\ pc = "overlay") =>
           calls' = Append(calls, Call("overlay", i, ms(subs[i].start), TRUE, <<>>))

\* C17: the cues are processed strictly in the order of the file and one at
\* a time: every step of a cue is over before the first step of a later cue,
\* the timeline has a single writer, and export and mux start only after the
\* overlay of the last cue.
C17_CuesInOrderOneWriter ==
    /\ []CuesOneAfterTheOther
    /\ [][OneWriter]_vars

\* both cues of a file were synthesized and overlaid, then the narration was
\* exported and muxed
C17_Witness ==
    /\ pc = "end"
    /\ Len(subs) = 2
    /\ Len(OverlayCalls) = 2
    /\ \E k \in 1..Len(calls) : calls[k].op = "mux" /\ calls[k].ok

(* ----------------------------- one run at a time ----------------------- *)

\* a worker thread is between the start of the build and the end of
\* replace_video_audio, its way through the except clause included
Running == pc \notin {"idle", "finally", "end"}

\* at most one worker thread, and none at work while the button is enabled
OneRun ==
    /\ workers \in {0, 1}
    /\ Running => (workers = 1 /\ ~btnEnabled /\ ~restoreQueued)
    /\ btnEnabled => (workers = 0 /\ pc \in {"idle", "end"})

\* a worker is started only by a click on the enabled button, which the same
\* handler disables; the button comes back only through the _restoreButton
\* that a finally clause queued
ButtonGuardsRun ==
    /\ workers' > workers =>
         /\ btnEnabled /\ ~btnEnabled'
         /\ ~Running
         /\ pc' = "start"
    /\ (btnEnabled' /\ ~btnEnabled) => (restoreQueued /\ ~restoreQueued' /\ pc = "end")
    /\ (restoreQueued' /\ ~restoreQueued) => (pc = "finally" /\ pc' = "end")

\* C18: at most one pipeline run is in progress at any time: onReplace_
\* disables the button before it starts the worker, the button is enabled
\* again only by the _restoreButton queued from the finally clause after all
\* pipeline work has ended, and so no second _do_replace starts while an
\* earlier one is between its build and the end of replace_video_audio.
C18_AtMostOneRun ==
    /\ []OneRun
    /\ [][ButtonGuardsRun]_vars

\* a second run has just been started, after the first one ended with Done
C18_Witness ==
    /\ pc = "start"
    /\ workers = 1
    /\ ~btnEnabled
    /\ status.text = "Done"

\* C19: what is dropped on the window while a run is in progress changes
\* neither the subtitle file the run parses nor the video it muxes nor the
\* output path it writes: whatever the worker thread reads is what was
\* selected when Replace Audio was clicked.
C19_RunUsesFilesSelectedAtClick ==
    /\ used.srt \in {NoPath, clicked.srt}
    /\ used.video \in {NoPath, clicked.video}
    /\ used.out \in {NoPath, OutPath(clicked.video)}

(* ------------------------- mux: fallback list -------------------------- *)

\* pick_mux_encoders has returned its list
Picked == CallsOf("encoders") # <<>>

\* the list is never empty, ends with the experimental-flagged aac, and has
\* aac_at before the plain aac
FallbackListWellFormed ==
    Picked =>
        /\ encoders # <<>>
        /\ encoders[Len(encoders)] = Encoder("aac", <<"-strict", "-2">>)
        /\ \A j, k \in 1..Len(encoders) :
               (encoders[j].codec = "aac_at" /\ encoders[k].codec = "aac") => j < k

\* C20: replace_video_audio returns normally only if one of its attempts
\* succeeded; the list of pick_mux_encoders is never empty, always ends with
\* ('aac', ['-strict', '-2']) and has aac_at before the plain aac; when every
\* attempt fails the function raises, and the run never reports Done without
\* a mux that succeeded.
C20_ReturnsOnlyAfterSuccessfulMux ==
    /\ FallbackListWellFormed
    /\ pc = "mux_ret" =>
           (MuxCalls # <<>> /\ MuxCalls[Len(MuxCalls)].ok /\ out_video.written)
    /\ (/\ Picked
        /\ pc # "mux"
        /\ Len(MuxCalls) = Len(encoders)
        /\ \A k \in 1..Len(MuxCalls) : ~MuxCalls[k].ok) =>
           (err = last_err /\ err.type = "RuntimeError" /\ status.text # "Done")
    /\ status.text = "Done" => \E k \in 1..Len(MuxCalls) : MuxCalls[k].ok

\* neither aac_at nor a plain aac was listed: the one attempt of the list
\* failed and the run ended in Error
C20_Witness ==
    /\ pc = "end"
    /\ Len(encoders) = 1
    /\ Len(MuxCalls) = 1
    /\ ~MuxCalls[1].ok
    /\ err = last_err
    /\ status.text = "Error"

(* --------------------------- status reports ---------------------------- *)

\* the thread is on its way out of _do_replace
Leaving == pc \in {"raised", "finally", "end"}

\* the two ways in which reading the subtitle file fails
ParseFailures ==
    {OtherError(<<"No", "such", "file">>),
     ValueError(<<"No", "subtitles", "found", "in", "SRT.">>)}

\* where the thread stands after an operation, by the operation and its
\* result alone
WhereAfter(c) ==
    CASE c.op = "say" -> IF c.ok THEN {"aiff_to_wav"} ELSE {"say_retry"}
      [] c.op = "aiff_to_wav" -> {"verify_wav"}
      [] c.op = "verify_audio" ->
            IF c.arg = 0 THEN {"fit"} ELSE IF c.arg = 1 THEN {"overlay"} ELSE {"pick_mux"}
      [] c.op = "atempo" -> {"fit_trim"}
      [] c.op \in {"silence", "trim"} -> {"verify_fit"}
      [] c.op = "overlay" -> {"cue", "say", "export"}
      [] c.op = "export" -> {"verify_narr"}
      [] c.op = "encoders" -> {"mux"}
      [] c.op = "mux" -> IF c.ok THEN {"mux_ret"} ELSE {"mux"}
      [] OTHER -> {}

\* the course of the run follows from the subtitle file and from the results
\* of the operations; neither the callback nor the label occurs in it
CourseSetByOperations ==
    /\ calls = <<>> =>
         \/ pc \in {"start", "cue", "say", "export"} /\ err = NoErr
         \/ Leaving /\ err \in ParseFailures
    /\ calls # <<>> =>
         IF Leaving
         THEN \/ err = NoErr /\ LastCall.op = "mux" /\ LastCall.ok
              \/ err # NoErr /\ ~LastCall.ok
              \/ err = OtherError(<<"CouldntDecodeError">>) /\ LastCall.op = "verify_audio"
         ELSE pc \in WhereAfter(LastCall) /\ err = NoErr
    /\ Len(timeline.overlays) = Len(OverlayCalls)
    /\ pc \in {"verify_narr", "pick_mux", "mux", "mux_ret"} =>
           Len(OverlayCalls) = SpokenCount

\* C15: reporting progress is pure observation: whether the status callback
\* is absent, works, or fails inside (setStatus swallows its own errors), the
\* run performs the operations that the subtitle file and their results
\* call for, composes the same timeline and ends in the same failure; no
\* status report ends a run, and without a callback the builder reports
\* nothing.
C15_StatusIsPureObservation ==
    /\ status_cb \in StatusModes
    /\ CourseSetByOperations
    /\ status_cb = "none" => status.text \notin {"Parsed", "Generating speech"}

\* every status report of a run failed inside setStatus: the label still
\* shows Idle, and the run synthesized, overlaid and muxed to its end
C15_Witness ==
    /\ status_cb = "label_fails"
    /\ pc = "end"
    /\ status = IdleStatus
    /\ err = NoErr
    /\ Len(OverlayCalls) = 1
    /\ \E k \in 1..Len(calls) : calls[k].op = "mux" /\ calls[k].ok

====
